---- MODULE Spec2Model ----
(***************************************************************************)
(* Model of foss-build (src/foss_build/app.py, src/docopt/__init__.py).    *)
(*                                                                         *)
(* Text handled by filter_output and written to the log files is a         *)
(* sequence of character codes (27 = ESC, 10 = newline, ...).  Command     *)
(* lines, step names and paths are TLA+ strings.                           *)
(***************************************************************************)
EXTENDS Integers, Sequences, FiniteSets, TLC

VARIABLES
    fs,          \* files present in the working directory (trigger files, configure.ac)
    runs,        \* number of invocations started so far
    pc,          \* position of the current invocation
    entry,       \* entry point of the current invocation: "main" or "run_steps"
    argv,        \* argv given to main
    environ,     \* the environment variables main was started with
    fs0,         \* fs as it was when the current invocation started
    resolved,    \* main's locals prefix, parallel, use_sudo, use_stow once computed
    rs_calls,    \* the arguments of the call of run_steps made by this invocation
    index,       \* run_steps' loop index (0-based)
    dirs,        \* log directories this invocation has made sure exist
    files,       \* log files this invocation has opened for writing: path -> content
    launched,    \* the calls of run_command made by this invocation
    results,     \* the values returned by the step functions of this invocation
    reaped,      \* the exit statuses process.wait() collected in this invocation
    emitted,     \* lines read from the current child's output so far
    raw_open,    \* the raw log of the current run_command is open for writing
    children,    \* child processes launched by this invocation and not yet waited for
    exit_status, \* argument of sys.exit, or 0 after a normal return
    exc,         \* name of the uncaught exception that ended the invocation
    f_in,        \* filter_output: the input string
    f_out,       \* filter_output: results of the successive applications
    f_n          \* filter_output: number of applications so far

fvars == <<f_in, f_out, f_n>>
pvars == <<fs, runs, pc, entry, argv, environ, fs0, resolved, rs_calls, index, dirs, files,
           launched, results, reaped, emitted, raw_open, children, exit_status, exc>>
vars == <<pvars, fvars>>

(***************************************************************************)
(* Bounds                                                                  *)
(***************************************************************************)
MaxTokens == 4     \* filter_output inputs are made of at most MaxTokens tokens
MaxSteps == 2      \* length of the step lists handed to run_steps directly
MaxArgs == 2       \* length of argv
MaxRuns == 2       \* invocations in one working directory
MaxLines == 1      \* lines a child may emit

(***************************************************************************)
(* Characters                                                              *)
(***************************************************************************)
BEL == 7
LF == 10
ESC == 27

Max(S) == CHOOSE x \in S : \A y \in S : y <= x

\* [0-9;]
IsParam(c) == c \in 48..57 \cup {59}
\* [a-zA-Z]
IsLetter(c) == c \in 65..90 \cup 97..122
\* the class with its last range ending at \x1A: ESC is not in it
IsControlShort(c) == c \in 1..9 \cup {11, 12} \cup 14..26 \cup {127}

\* [\x01-\x09\x0B\x0C\x0E-\x1F\x7F]
IsControl(c) == c \in 1..9 \cup {11, 12} \cup 14..31 \cup {127}
\* a whitespace class that leaves out the carriage return
IsSpaceNoCR(c) == c \in {9, 10, 11, 12, 32}

\* \s of a str pattern, restricted to code points below 256
IsSpace(c) == c \in 9..13 \cup 28..32 \cup {133, 160}

\* first index >= i of s whose character does not satisfy P, Len(s)+1 if none
RECURSIVE SkipParams(_, _)
SkipParams(s, i) ==
    IF i <= Len(s) /\ IsParam(s[i]) THEN SkipParams(s, i + 1) ELSE i

RECURSIVE SkipSpace(_, _)
SkipSpace(s, i) ==
    IF i <= Len(s) /\ IsSpace(s[i]) THEN SkipSpace(s, i + 1) ELSE i

RECURSIVE SkipLine(_, _)
SkipLine(s, i) ==
    IF i <= Len(s) /\ s[i] # LF THEN SkipLine(s, i + 1) ELSE i

RECURSIVE SkipNewlines(_, _)
SkipNewlines(s, i) ==
    IF i <= Len(s) /\ s[i] = LF THEN SkipNewlines(s, i + 1) ELSE i

\* End of the match of \x1b\[[0-9;]*[a-zA-Z] that starts at i, 0 if none.
AnsiEnd(s, i) ==
    IF i + 1 <= Len(s) /\ s[i] = ESC /\ s[i + 1] = 91
    THEN LET j == SkipParams(s, i + 2)
         IN  IF j <= Len(s) /\ IsLetter(s[j]) THEN j ELSE 0
    ELSE 0

\* End of the match of \x1b]0;.*\x07 that starts at i, 0 if none: .* is
\* greedy and does not cross a newline, so the match ends at the last BEL
\* of the line.
TitleEnd(s, i) ==
    IF i + 3 <= Len(s) /\ s[i] = ESC /\ s[i + 1] = 93 /\ s[i + 2] = 48 /\ s[i + 3] = 59
    THEN LET e == SkipLine(s, i + 4)
             B == {k \in (i + 4)..(e - 1) : s[k] = BEL}
         IN  IF B # {} THEN Max(B) ELSE 0
    ELSE 0

\* the match of \n\s*?\n: a lazy \s*? stops at the first newline
BlankEndLazy(s, i) ==
    IF s[i] = LF
    THEN LET e == SkipSpace(s, i + 1)
             N == {k \in (i + 1)..(e - 1) : s[k] = LF}
         IN  IF N # {} THEN 0 - Max({0 - k : k \in N}) ELSE 0
    ELSE 0

\* End of the match of \n\s*\n that starts at i, 0 if none: \s* is greedy,
\* the match ends at the last newline of the whitespace run after s[i].
BlankEnd(s, i) ==
    IF s[i] = LF
    THEN LET e == SkipSpace(s, i + 1)
             N == {k \in (i + 1)..(e - 1) : s[k] = LF}
         IN  IF N # {} THEN Max(N) ELSE 0
    ELSE 0

\* End of the match of \n{2,} that starts at i, 0 if none.
NewlinesEnd(s, i) ==
    IF i + 1 <= Len(s) /\ s[i] = LF /\ s[i + 1] = LF
    THEN SkipNewlines(s, i) - 1
    ELSE 0

\* re.sub(r"\x1b\[[0-9;]*[a-zA-Z]", "", output)
RECURSIVE SubAnsi(_, _)
SubAnsi(s, i) ==
    IF i > Len(s) THEN <<>>
    ELSE LET e == AnsiEnd(s, i)
         IN  IF e > 0 THEN SubAnsi(s, e + 1) ELSE <<s[i]>> \o SubAnsi(s, i + 1)

\* re.sub(r"\x1b]0;.*\x07", "", output)
RECURSIVE SubTitle(_, _)
SubTitle(s, i) ==
    IF i > Len(s) THEN <<>>
    ELSE LET e == TitleEnd(s, i)
         IN  IF e > 0 THEN SubTitle(s, e + 1) ELSE <<s[i]>> \o SubTitle(s, i + 1)

SubControlKeep(c) == ~IsControl(c)

\* re.sub(r"[\x01-\x09\x0B\x0C\x0E-\x1F\x7F]", "", output)
SubControl(s) == SelectSeq(s, SubControlKeep)

\* re.sub(r"\n\s*\n", "\n", output)
RECURSIVE SubBlank(_, _)
SubBlank(s, i) ==
    IF i > Len(s) THEN <<>>
    ELSE LET e == BlankEnd(s, i)
         IN  IF e > 0 THEN <<LF>> \o SubBlank(s, e + 1) ELSE <<s[i]>> \o SubBlank(s, i + 1)

\* re.sub(r"\n{2,}", "\n", output)
RECURSIVE SubNewlines(_, _)
SubNewlines(s, i) ==
    IF i > Len(s) THEN <<>>
    ELSE LET e == NewlinesEnd(s, i)
         IN  IF e > 0 THEN <<LF>> \o SubNewlines(s, e + 1)
                      ELSE <<s[i]>> \o SubNewlines(s, i + 1)

filter_output(output) ==
    LET o1 == SubAnsi(output, 1)
        o2 == SubTitle(o1, 1)
        o3 == SubControl(o2)
        o4 == SubBlank(o3, 1)
        o5 == SubNewlines(o4, 1)
    IN  o5

(***************************************************************************)
(* filter_output applied to bounded inputs                                 *)
(***************************************************************************)
\* pieces the inputs are built from: ESC, "[", "ESC]0;", BEL, newline,
\* space, carriage return, NUL, "0", "a"
Tokens == {<<ESC>>, <<91>>, <<ESC, 93, 48, 59>>, <<BEL>>, <<LF>>, <<32>>, <<13>>,
           <<0>>, <<48>>, <<97>>}

RECURSIVE Flatten(_)
Flatten(ts) == IF ts = <<>> THEN <<>> ELSE Head(ts) \o Flatten(Tail(ts))

FilterInputs == {Flatten(ts) : ts \in UNION {[1..n -> Tokens] : n \in 0..MaxTokens}}

Range(s) == {s[i] : i \in DOMAIN s}

EmptyFiles == [p \in {} |-> <<>>]

PipelineIdle ==
    /\ fs = {}
    /\ runs = 0
    /\ pc = "idle"
    /\ entry = "none"
    /\ argv = <<>>
    /\ environ = <<>>
    /\ fs0 = {}
    /\ resolved = <<>>
    /\ rs_calls = <<>>
    /\ index = 0
    /\ dirs = {}
    /\ files = EmptyFiles
    /\ launched = <<>>
    /\ results = <<>>
    /\ reaped = <<>>
    /\ emitted = <<>>
    /\ raw_open = FALSE
    /\ children = 0
    /\ exit_status = 0
    /\ exc = "none"

FilterInit ==
    /\ PipelineIdle
    /\ f_in \in FilterInputs
    /\ f_out = <<>>
    /\ f_n = 0

\* one more application of filter_output to the previous result
ApplyFilter ==
    /\ f_n < 2
    /\ f_out' = Append(f_out, filter_output(IF f_n = 0 THEN f_in ELSE f_out[f_n]))
    /\ f_n' = f_n + 1
    /\ UNCHANGED <<f_in, pvars>>

FilterNext == ApplyFilter

FilterSpec == FilterInit /\ [][FilterNext]_vars

(***************************************************************************)
(* The program: docopt, main, run_steps, the step functions, run_command   *)
(***************************************************************************)
DEFAULT_PARALLEL == 8
DEFAULT_PREFIX == "/usr/local"
STOW_PREFIX_BASE == "/opt/stow"

\* name of the current working directory (Path.cwd().name)
CwdName == "myproj-1.0"

Canonical == <<"autoconf", "configure", "build", "test", "install">>

\* keys of step_functions
StepNames == {"autoconf", "configure", "build", "test", "install"}

\* exit statuses a child may end with (process.returncode of a child that
\* exited; exit_status below is the argument run_steps gives sys.exit)
ExitCodes == {0, 1, 2}

\* lines read from a child's merged stdout/stderr: "a\n", "\x1b[0ma\n", "\n"
Lines == {<<97, LF>>, <<ESC, 91, 48, 109, 97, LF>>, <<LF>>}

\* what main may be given as argv
ArgTokens == {"foss-build", "--large", "--no-sudo", "build", "install"}
Argvs == UNION {[1..n -> ArgTokens] : n \in 0..MaxArgs}

\* the environment: PARALLEL unset, "4", "0", "-2" or "x"; PREFIX unset or "/opt/x"
ParallelEnvs == {<<>>} \cup {("PARALLEL" :> v) : v \in {<<52>>, <<48>>, <<45, 50>>, <<120>>}}
PrefixEnvs == {<<>>, ("PREFIX" :> "/opt/x")}
Envs == {p @@ q : p \in ParallelEnvs, q \in PrefixEnvs}

\* arguments of a direct call of run_steps
StepInputs == UNION {[1..n -> StepNames \cup {"bogus"}] : n \in 0..MaxSteps}
Prefixes == {"/usr/local", "/opt/x"}
Parallels == {4, 8}

IsPositional(a) == a # "--large" /\ a # "--no-sudo"

docopt(av) ==
    ("--large" :> ("--large" \in Range(av)))
    @@ ("--no-sudo" :> ("--no-sudo" \in Range(av)))
    @@ ("<command>" :> SelectSeq(av, IsPositional))

\* value of a string of decimal digits
RECURSIVE DigitsValue(_)
DigitsValue(d) ==
    IF d = <<>> THEN 0 ELSE 10 * DigitsValue(SubSeq(d, 1, Len(d) - 1)) + (d[Len(d)] - 48)

\* a conversion that falls back to the default for anything but a positive
\* integer
py_int_or_default(str) ==
    IF str # <<>> /\ (\A i \in DOMAIN str : str[i] \in 48..57) /\ DigitsValue(str) > 0
    THEN [ok |-> TRUE, val |-> DigitsValue(str)]
    ELSE [ok |-> TRUE, val |-> 8]

\* int(str): an optional sign followed by decimal digits, ValueError otherwise
py_int(str) ==
    LET signed == str # <<>> /\ str[1] \in {43, 45}
        digits == IF signed THEN Tail(str) ELSE str
    IN  IF digits # <<>> /\ \A i \in DOMAIN digits : digits[i] \in 48..57
        THEN [ok |-> TRUE,
              val |-> IF signed /\ str[1] = 45 THEN 0 - DigitsValue(digits)
                                               ELSE DigitsValue(digits)]
        ELSE [ok |-> FALSE, val |-> 0]

\* a touch that removes the file when it is already there
touch_toggle(path, present) ==
    IF path \in present THEN present \ {path} ELSE present \cup {path}

\* Path(path).touch(exist_ok=True) in a directory holding the files present
touch(path, present) == present \cup {path}

Terminal == {"done", "exited", "raised"}

CanStart == pc = "idle" /\ runs < MaxRuns

\* a fresh process starts in the working directory
Start(e, av, env) ==
    /\ runs' = runs + 1
    /\ entry' = e
    /\ argv' = av
    /\ environ' = env
    /\ fs0' = fs
    /\ index' = 0
    /\ dirs' = {}
    /\ files' = EmptyFiles
    /\ launched' = <<>>
    /\ results' = <<>>
    /\ reaped' = <<>>
    /\ emitted' = <<>>
    /\ raw_open' = FALSE
    /\ children' = 0
    /\ exit_status' = 0

\* main(argv) up to its call of run_steps
Main(av, env) ==
    /\ CanStart
    /\ Start("main", av, env)
    /\ LET args == docopt(av)
           parallel == IF "PARALLEL" \in DOMAIN env THEN py_int(env["PARALLEL"])
                       ELSE [ok |-> TRUE, val |-> DEFAULT_PARALLEL]
           prefix0 == IF "PREFIX" \in DOMAIN env THEN env["PREFIX"] ELSE DEFAULT_PREFIX
           stow == args["--large"] \/ ".stow" \in fs
           sudo == ~args["--no-sudo"] /\ ".no-sudo" \notin fs
           prefix == IF stow THEN STOW_PREFIX_BASE \o "/" \o CwdName ELSE prefix0
       IN  IF ~parallel.ok
           THEN /\ pc' = "raised"
                /\ exc' = "ValueError"
                /\ resolved' = <<>>
                /\ rs_calls' = <<>>
                /\ fs' = fs
           ELSE /\ resolved' = <<[prefix |-> prefix, parallel |-> parallel.val,
                                  use_sudo |-> sudo, use_stow |-> stow]>>
                /\ fs' = LET stowed == IF stow THEN touch(".stow", fs) ELSE fs
                          IN  IF args["--no-sudo"] THEN touch(".no-sudo", stowed)
                                                   ELSE stowed
                /\ IF "commands" \notin DOMAIN args
                   THEN /\ pc' = "raised"
                        /\ exc' = "KeyError"
                        /\ rs_calls' = <<>>
                   ELSE /\ pc' = "run_steps"
                        /\ exc' = "none"
                        /\ rs_calls' = <<[steps |-> IF args["commands"] # <<>>
                                                    THEN args["commands"] ELSE Canonical,
                                          prefix |-> prefix, parallel |-> parallel.val,
                                          use_sudo |-> sudo]>>
    /\ UNCHANGED fvars

\* run_steps called by a caller other than main
CallRunSteps(st, prefix, parallel, use_sudo) ==
    /\ CanStart
    /\ Start("run_steps", <<>>, <<>>)
    /\ resolved' = <<>>
    /\ rs_calls' = <<[steps |-> st, prefix |-> prefix, parallel |-> parallel,
                      use_sudo |-> use_sudo]>>
    /\ pc' = "run_steps"
    /\ exc' = "none"
    /\ UNCHANGED <<fs, fvars>>

steps == rs_calls[1].steps
AtStep(name) == pc = "run_steps" /\ index < Len(steps) /\ steps[index + 1] = name
step == steps[index + 1]

\* the directory named after the step alone
log_dir_by_name == "log/" \o step

\* str(Path(f"./log/{index}.{step}"))
log_dir == "log/" \o ToString(index) \o "." \o step

\* def log(message): a call with any other number of arguments raises TypeError
log(args) == Len(args) = 1

\* run_steps advancing past the next step after a success
StepReturnedSkip(exit_code) ==
    /\ results' = Append(results, [index |-> index, step |-> step, exit_code |-> exit_code])
    /\ IF exit_code # 0
       THEN /\ pc' = "exited"
            /\ exit_status' = exit_code
            /\ index' = index
       ELSE /\ pc' = "run_steps"
            /\ exit_status' = exit_status
            /\ index' = IF index + 2 <= Len(steps) THEN index + 2 ELSE Len(steps)

\* run_steps without the test of the exit code
StepReturnedNoStop(exit_code) ==
    /\ results' = Append(results, [index |-> index, step |-> step, exit_code |-> exit_code])
    /\ pc' = "run_steps"
    /\ exit_status' = exit_status
    /\ index' = index + 1

\* run_steps after the step function returned exit_code
StepReturned(exit_code) ==
    /\ results' = Append(results, [index |-> index, step |-> step, exit_code |-> exit_code])
    /\ IF exit_code # 0
       THEN /\ pc' = "exited"
            /\ exit_status' = exit_code
            /\ index' = index
       ELSE /\ pc' = "run_steps"
            /\ exit_status' = exit_status
            /\ index' = index + 1

\* run_command with the failure of Popen caught and passed over
run_command_swallow(command) ==
    \E ok \in BOOLEAN :
        /\ dirs' = dirs \cup {"log", log_dir}
        /\ files' = ((log_dir \o "/raw") :> <<>>) @@ files
        /\ launched' = Append(launched, [index |-> index, step |-> step,
                                         command |-> command, log_dir |-> log_dir,
                                         started |-> ok])
        /\ emitted' = <<>>
        /\ IF ok
           THEN /\ pc' = "reading"
                /\ raw_open' = TRUE
                /\ children' = children + 1
           ELSE /\ pc' = "waiting"
                /\ raw_open' = FALSE
                /\ children' = children + 1
        /\ UNCHANGED <<fs, runs, entry, argv, environ, fs0, resolved, rs_calls, index,
                       results, reaped, exit_status, exc, fvars>>

\* run_command up to the start of its read loop
run_command(command) ==
    \E ok \in BOOLEAN :
        /\ dirs' = dirs \cup {"log", log_dir}
        /\ files' = ((log_dir \o "/raw") :> <<>>) @@ files
        /\ launched' = Append(launched, [index |-> index, step |-> step,
                                         command |-> command, log_dir |-> log_dir,
                                         started |-> ok])
        /\ emitted' = <<>>
        /\ IF ok
           THEN /\ pc' = "reading"
                /\ raw_open' = TRUE
                /\ children' = children + 1
                /\ exc' = exc
           ELSE /\ pc' = "raised"
                /\ raw_open' = FALSE
                /\ children' = children
                /\ exc' = "FileNotFoundError"
        /\ UNCHANGED <<fs, runs, entry, argv, environ,
                   fs0, resolved, rs_calls, index, results,
                       reaped, exit_status, fvars>>

\* run_autoconf without the test of configure.ac
run_autoconf_always ==
    /\ AtStep("autoconf")
    /\ run_command(<<"autoconf">>)

run_autoconf ==
    /\ AtStep("autoconf")
    /\ IF "configure.ac" \in fs
       THEN run_command(<<"autoconf">>)
       ELSE /\ StepReturned(0)
            /\ UNCHANGED <<fs, runs, entry, argv, environ,
                   fs0, resolved, rs_calls, dirs, files,
                           launched, reaped, emitted, raw_open, children, exc, fvars>>

run_configure ==
    /\ AtStep("configure")
    /\ run_command(<<"./configure", "--prefix=" \o rs_calls[1].prefix>>)

run_build ==
    /\ AtStep("build")
    /\ run_command(<<"make", "-j" \o ToString(rs_calls[1].parallel)>>)

run_test ==
    /\ AtStep("test")
    /\ run_command(<<"make", "-j" \o ToString(rs_calls[1].parallel), "test">>)

\* command.append("sudo") in place of command.insert(0, "sudo")
install_command_append(parallel, use_sudo) ==
    LET command == <<"make", "-j" \o ToString(parallel), "install">>
    IN  IF use_sudo THEN command \o <<"sudo">> ELSE command

install_command(parallel, use_sudo) ==
    LET command == <<"make", "-j" \o ToString(parallel), "install">>
    IN  IF use_sudo THEN <<"sudo">> \o command ELSE command

run_install ==
    /\ AtStep("install")
    /\ run_command(install_command(rs_calls[1].parallel, rs_calls[1].use_sudo))

\* step_functions[step] with a step that is not a key
UnknownStep ==
    /\ pc = "run_steps"
    /\ index < Len(steps)
    /\ step \notin StepNames
    /\ pc' = "raised"
    /\ exc' = "KeyError"
    /\ UNCHANGED <<fs, runs, entry, argv, environ,
                   fs0, resolved, rs_calls, index, dirs, files,
                   launched, results, reaped, emitted, raw_open, children, exit_status,
                   fvars>>

\* run_command: one iteration of "for line in process.stdout"
ReadLine(line) ==
    /\ pc = "reading"
    /\ Len(emitted) < MaxLines
    /\ emitted' = Append(emitted, line)
    /\ IF log(<<line, log_dir \o "/raw">>)
       THEN /\ files' = [files EXCEPT ![log_dir \o "/raw"] = @ \o line]
            /\ UNCHANGED <<pc, raw_open, exc>>
       ELSE /\ pc' = "raised"
            /\ exc' = "TypeError"
            /\ raw_open' = FALSE
            /\ files' = files
    /\ UNCHANGED <<fs, runs, entry, argv, environ,
                   fs0, resolved, rs_calls, index, dirs, launched,
                   results, reaped, children, exit_status, fvars>>

\* process.wait() moved inside the with block: raw is still open after the
\* read loop
EndOfOutputKeepOpen ==
    /\ pc = "reading"
    /\ pc' = "waiting"
    /\ raw_open' = raw_open
    /\ UNCHANGED <<fs, runs, entry, argv, environ, fs0, resolved, rs_calls, index, dirs,
                   files, launched, results, reaped, emitted, children, exit_status, exc,
                   fvars>>

\* run_command returning 0 at the end of the output without process.wait()
EndOfOutputNoWait ==
    /\ pc = "reading"
    /\ raw_open' = FALSE
    /\ files' = ((log_dir \o "/txt") :> filter_output(files[log_dir \o "/raw"])) @@ files
    /\ results' = Append(results, [index |-> index, step |-> step, exit_code |-> 0])
    /\ pc' = "run_steps"
    /\ index' = index + 1
    /\ UNCHANGED <<fs, runs, entry, argv, environ, fs0, resolved, rs_calls, dirs,
                   launched, reaped, emitted, children, exit_status, exc, fvars>>

\* run_command: the child closed its output, the with block closes raw
EndOfOutput ==
    /\ pc = "reading"
    /\ pc' = "waiting"
    /\ raw_open' = FALSE
    /\ UNCHANGED <<fs, runs, entry, argv, environ,
                   fs0, resolved, rs_calls, index, dirs, files,
                   launched, results, reaped, emitted, children, exit_status, exc, fvars>>

\* run_command from process.wait() to its return, and run_steps' test of the
\* exit code
Wait(returncode) ==
    /\ pc = "waiting"
    /\ children' = children - 1
    /\ reaped' = Append(reaped, [index |-> index, returncode |-> returncode])
    /\ files' = ((log_dir \o "/txt") :> filter_output(files[log_dir \o "/raw"])) @@ files
    /\ StepReturned(returncode)
    /\ UNCHANGED <<fs, runs, entry, argv, environ,
                   fs0, resolved, rs_calls, dirs, launched,
                   emitted, raw_open, exc, fvars>>

\* run_steps: the loop is over, run_steps and its caller return
Finished ==
    /\ pc = "run_steps"
    /\ index = Len(steps)
    /\ pc' = "done"
    /\ exit_status' = 0
    /\ UNCHANGED <<fs, runs, entry, argv, environ,
                   fs0, resolved, rs_calls, index, dirs, files,
                   launched, results, reaped, emitted, raw_open, children, exc, fvars>>

\* the process of the invocation ends (return, sys.exit or traceback); only
\* the working directory outlives it
ProcessExit ==
    /\ pc \in Terminal
    /\ pc' = "idle"
    /\ entry' = "none"
    /\ argv' = <<>>
    /\ environ' = <<>>
    /\ fs0' = fs
    /\ resolved' = <<>>
    /\ rs_calls' = <<>>
    /\ index' = 0
    /\ dirs' = {}
    /\ files' = EmptyFiles
    /\ launched' = <<>>
    /\ results' = <<>>
    /\ reaped' = <<>>
    /\ emitted' = <<>>
    /\ raw_open' = FALSE
    /\ children' = 0
    /\ exit_status' = 0
    /\ exc' = "none"
    /\ UNCHANGED <<fs, runs, fvars>>

Init ==
    /\ fs \in SUBSET {"configure.ac"}
    /\ runs = 0
    /\ pc = "idle"
    /\ entry = "none"
    /\ argv = <<>>
    /\ environ = <<>>
    /\ fs0 = fs
    /\ resolved = <<>>
    /\ rs_calls = <<>>
    /\ index = 0
    /\ dirs = {}
    /\ files = EmptyFiles
    /\ launched = <<>>
    /\ results = <<>>
    /\ reaped = <<>>
    /\ emitted = <<>>
    /\ raw_open = FALSE
    /\ children = 0
    /\ exit_status = 0
    /\ exc = "none"
    /\ f_in = <<>>
    /\ f_out = <<>>
    /\ f_n = 0

Next ==
    \/ CanStart /\ \E av \in Argvs, env \in Envs : Main(av, env)
    \/ CanStart /\ \E st \in StepInputs, p \in Prefixes, n \in Parallels, s \in BOOLEAN :
                       CallRunSteps(st, p, n, s)
    \/ run_autoconf
    \/ run_configure
    \/ run_build
    \/ run_test
    \/ run_install
    \/ UnknownStep
    \/ \E line \in Lines : ReadLine(line)
    \/ EndOfOutput
    \/ \E returncode \in ExitCodes : Wait(returncode)
    \/ Finished
    \/ ProcessExit

Spec == Init /\ [][Next]_vars

(***************************************************************************)
(* Properties                                                              *)
(***************************************************************************)
\* positions of the step list whose step function has been called
Executed == {results[i].index : i \in DOMAIN results}
            \cup {launched[i].index : i \in DOMAIN launched}

LaunchesOf(i) == {j \in DOMAIN launched : launched[j].index = i}

Positionals == SelectSeq(argv, IsPositional)
HasFlag == "--large" \in Range(argv) \/ "--no-sudo" \in Range(argv)

\* C1: fail-fast.  When the step at position k is the first to return a
\* non-zero status, nothing after it is returned or launched, the steps at
\* positions 0..k are the ones executed, and run_steps has called sys.exit
\* with exactly that status.
FailFast ==
    \A k \in DOMAIN results :
        results[k].exit_code # 0 =>
            /\ k = Len(results)
            /\ \A j \in 1..(k - 1) : results[j].exit_code = 0
            /\ Executed = 0..(k - 1)
            /\ results[k].index = k - 1
            /\ pc = "exited"
            /\ exc = "none"
            /\ exit_status = results[k].exit_code

\* a step failed with status 2 while a later step of the list was pending
FailFastWitness ==
    /\ pc = "exited"
    /\ exit_status = 2
    /\ Len(steps) > Len(results)

\* C2: the steps that return are the steps of the list taken once each in
\* increasing position, no position is launched twice, and a run in which
\* every step returned 0 ends by a normal return with status 0 after
\* Len(steps) steps; sys.exit is called only after a non-zero status.
AllSucceed ==
    /\ \A i \in DOMAIN results :
           /\ results[i].index = i - 1
           /\ i <= Len(steps)
           /\ results[i].step = steps[i]
    /\ \A i, j \in DOMAIN launched : i < j => launched[i].index < launched[j].index
    /\ pc = "exited" => \E i \in DOMAIN results : results[i].exit_code # 0
    /\ pc = "done" =>
           /\ Len(results) = Len(steps)
           /\ \A i \in DOMAIN results : results[i].exit_code = 0
           /\ exit_status = 0
           /\ exc = "none"

\* a list of two steps ran to the end
AllSucceedWitness ==
    /\ pc = "done"
    /\ Len(steps) = 2
    /\ Len(results) = 2
    /\ Len(launched) = 2

\* C3: whatever lines the child has emitted, run_command does not fail, the
\* raw log holds the emitted lines in order, and once the step has returned
\* the txt log is filter_output of the raw log and the value returned is the
\* child's status.
RunCommandLogs ==
    \A i \in DOMAIN launched :
        LET l == launched[i]
            last == i = Len(launched)
            returned == \E j \in DOMAIN results : results[j].index = l.index
        IN  /\ (last /\ emitted # <<>>) =>
                   /\ exc # "TypeError"
                   /\ files[l.log_dir \o "/raw"] = Flatten(emitted)
            /\ returned =>
                   /\ (l.log_dir \o "/txt") \in DOMAIN files
                   /\ files[l.log_dir \o "/txt"] = filter_output(files[l.log_dir \o "/raw"])
                   /\ \E j \in DOMAIN results, w \in DOMAIN reaped :
                          /\ results[j].index = l.index
                          /\ reaped[w].index = l.index
                          /\ results[j].exit_code = reaped[w].returncode

\* C4: an invocation of main without flags in a directory where .stow exists
\* resolves use_stow to true and calls run_steps with the stow prefix.
StickyStow ==
    (entry = "main" /\ ".stow" \in fs0 /\ ~HasFlag /\ exc # "ValueError") =>
        /\ Len(resolved) = 1
        /\ resolved[1].use_stow
        /\ Len(rs_calls) = 1
        /\ rs_calls[1].prefix = "/opt/stow/myproj-1.0"

\* C5: main resolves use_sudo to "no --no-sudo flag and no .no-sudo file",
\* --no-sudo creates .no-sudo, and an invocation that finds .no-sudo hands
\* run_steps use_sudo = false, so that no install command starts with sudo.
NoSudoSticky ==
    (entry = "main" /\ exc # "ValueError") =>
        /\ Len(resolved) = 1
        /\ resolved[1].use_sudo = ~("--no-sudo" \in Range(argv) \/ ".no-sudo" \in fs0)
        /\ "--no-sudo" \in Range(argv) => ".no-sudo" \in fs
        /\ ".no-sudo" \in fs0 =>
               /\ Len(rs_calls) = 1
               /\ ~rs_calls[1].use_sudo
               /\ \A i \in DOMAIN launched :
                      launched[i].step = "install" => launched[i].command[1] # "sudo"

\* C6: main calls run_steps with the positional arguments in their order
\* when there are some, with the canonical list otherwise.
StepsPassed ==
    (entry = "main" /\ exc # "ValueError") =>
        /\ Len(rs_calls) = 1
        /\ rs_calls[1].steps = IF Positionals # <<>> THEN Positionals ELSE Canonical

\* C7: filter_output applied to its own result returns that result.
Idempotent == f_n = 2 => f_out[2] = f_out[1]

\* filter_output changed its input and was applied to what it left
IdempotentWitness ==
    /\ f_n = 2
    /\ f_out[1] # f_in
    /\ Len(f_out[1]) >= 2
    /\ LF \in Range(f_out[1])

\* C8 as stated: the result holds no character of 0x00-0x1F or 0x7F other
\* than newline.
NoControlCharacters ==
    f_n >= 1 => \A i \in DOMAIN f_out[1] : f_out[1][i] \notin ((0..31 \cup {127}) \ {10})

\* C8 amended: the result holds no character of 0x01-0x1F or 0x7F other than
\* newline and carriage return (NUL and carriage return are kept).
NoControlCharactersButCRNUL ==
    f_n >= 1 => \A i \in DOMAIN f_out[1] :
                    f_out[1][i] \notin ((1..31 \cup {127}) \ {10, 13})

\* an input with ESC and BEL whose result still holds a carriage return
NoControlWitness ==
    /\ f_n >= 1
    /\ ESC \in Range(f_in)
    /\ BEL \in Range(f_in)
    /\ 13 \in Range(f_out[1])
    /\ ESC \notin Range(f_out[1])

JFlag(n) == CASE n = 4 -> "-j4" [] n = 8 -> "-j8" [] OTHER -> "-j"

ExpectedCommand(name, prefix, n, use_sudo) ==
    CASE name = "configure" ->
             IF prefix = "/opt/x" THEN <<"./configure", "--prefix=/opt/x">>
                                  ELSE <<"./configure", "--prefix=/usr/local">>
      [] name = "build" -> <<"make", JFlag(n)>>
      [] name = "test" -> <<"make", JFlag(n), "test">>
      [] name = "install" ->
             IF use_sudo THEN <<"sudo", "make", JFlag(n), "install">>
                         ELSE <<"make", JFlag(n), "install">>
      [] OTHER -> <<"autoconf">>

\* C9: the command handed to run_command is the one of the table for the
\* step, the prefix, the parallelism and use_sudo, "sudo" coming first in
\* the install command exactly when use_sudo holds, and a step that returns
\* after run_command returns the status process.wait() collected.
CommandConstruction ==
    /\ \A i \in DOMAIN launched :
           launched[i].command =
               ExpectedCommand(launched[i].step, rs_calls[1].prefix,
                               rs_calls[1].parallel, rs_calls[1].use_sudo)
    /\ \A j \in DOMAIN results :
           LaunchesOf(results[j].index) # {} =>
               \E w \in DOMAIN reaped :
                   /\ reaped[w].index = results[j].index
                   /\ reaped[w].returncode = results[j].exit_code

\* an install step run with sudo returned status 2
CommandConstructionWitness ==
    /\ pc = "exited"
    /\ rs_calls[1].use_sudo
    /\ rs_calls[1].parallel = 4
    /\ results[Len(results)].step = "install"
    /\ results[Len(results)].exit_code = 2
    /\ launched[Len(launched)].command[1] = "sudo"

\* C10: without configure.ac the autoconf step launches nothing, makes no
\* log directory, returns 0 and the loop moves on; with configure.ac it
\* hands run_command the command ["autoconf"] once and returns its status.
NoOpShortcut ==
    /\ \A i \in DOMAIN launched :
           launched[i].step = "autoconf" =>
               /\ "configure.ac" \in fs
               /\ launched[i].command = <<"autoconf">>
    /\ \A j \in DOMAIN results :
           results[j].step = "autoconf" =>
               IF "configure.ac" \notin fs
               THEN /\ results[j].exit_code = 0
                    /\ LaunchesOf(results[j].index) = {}
                    /\ ("log/" \o ToString(results[j].index) \o ".autoconf") \notin dirs
                    /\ index > results[j].index
               ELSE /\ Cardinality(LaunchesOf(results[j].index)) = 1
                    /\ \E w \in DOMAIN reaped :
                           /\ reaped[w].index = results[j].index
                           /\ reaped[w].returncode = results[j].exit_code

\* autoconf was skipped for want of configure.ac and the next step was launched
NoOpShortcutWitness ==
    /\ "configure.ac" \notin fs
    /\ Len(results) >= 1
    /\ results[1].step = "autoconf"
    /\ Len(launched) >= 1
    /\ launched[1].index = 1

\* the decimal digit of a position of the step list
PositionDigit(i) ==
    CASE i = 0 -> "0" [] i = 1 -> "1" [] i = 2 -> "2" [] i = 3 -> "3" [] i = 4 -> "4"
      [] OTHER -> "?"

\* C11: the step at position i named s is run with the log directory
\* log/<i>.<s>, which then exists and holds the raw log, and two calls of
\* run_command of one run never share a log directory, whatever the names
\* of their steps.
LogLayout ==
    /\ \A i \in DOMAIN launched :
           /\ launched[i].step = steps[launched[i].index + 1]
           /\ launched[i].log_dir =
                  "log/" \o PositionDigit(launched[i].index) \o "." \o launched[i].step
           /\ launched[i].log_dir \in dirs
           /\ (launched[i].log_dir \o "/raw") \in DOMAIN files
    /\ \A i, j \in DOMAIN launched :
           launched[i].index # launched[j].index =>
               launched[i].log_dir # launched[j].log_dir

\* the same step name was run at two positions of the list
LogLayoutWitness ==
    /\ Len(launched) = 2
    /\ launched[1].step = launched[2].step
    /\ launched[1].log_dir = "log/0.build"
    /\ launched[2].log_dir = "log/1.build"
    /\ "log/0.build/txt" \in DOMAIN files

ParallelSet == "PARALLEL" \in DOMAIN environ

\* C12 as stated: main resolves the parallelism to the value of PARALLEL
\* when that is a positive integer ("4" here) and to 8 in every other case,
\* so that it is always positive, and hands run_steps that value.
ParallelPositive ==
    entry = "main" =>
        /\ Len(resolved) = 1
        /\ resolved[1].parallel =
               IF ParallelSet /\ environ["PARALLEL"] = <<52>> THEN 4 ELSE 8
        /\ resolved[1].parallel > 0
        /\ \A i \in DOMAIN rs_calls : rs_calls[i].parallel = resolved[1].parallel

\* C12 amended: main resolves the parallelism to 8 when PARALLEL is unset
\* and to int(PARALLEL) when it is set to a decimal integer of any sign
\* ("4" -> 4, "0" -> 0, "-2" -> -2); when PARALLEL is set to anything else
\* ("x") main ends with ValueError before it resolves or touches anything.
ParallelAsConverted ==
    entry = "main" =>
        IF ParallelSet /\ environ["PARALLEL"] = <<120>>
        THEN /\ pc = "raised"
             /\ exc = "ValueError"
             /\ resolved = <<>>
             /\ rs_calls = <<>>
             /\ fs = fs0
        ELSE /\ Len(resolved) = 1
             /\ resolved[1].parallel =
                    CASE ~ParallelSet -> 8
                      [] ParallelSet /\ environ["PARALLEL"] = <<52>> -> 4
                      [] ParallelSet /\ environ["PARALLEL"] = <<48>> -> 0
                      [] ParallelSet /\ environ["PARALLEL"] = <<45, 50>> -> 0 - 2
                      [] OTHER -> 8
             /\ \A i \in DOMAIN rs_calls : rs_calls[i].parallel = resolved[1].parallel

\* main resolved a parallelism that is not positive
ParallelWitness ==
    /\ entry = "main"
    /\ ParallelSet
    /\ Len(resolved) = 1
    /\ resolved[1].parallel < 0

\* C13: a step list with a name that step_functions does not know, at any
\* position, runs nothing: no step function is called, no child is launched
\* and no log directory is made.
InvalidStepAborts ==
    (Len(rs_calls) = 1 /\ \E i \in DOMAIN steps : steps[i] \notin StepNames) =>
        /\ launched = <<>>
        /\ results = <<>>
        /\ dirs = {}
        /\ children = 0

\* C14: when the launch of a step's command fails, the exception leaves
\* run_command and run_steps: the step returns nothing, no later step is
\* called, and the run ends by that exception, never by a normal return or
\* a status 0.
LaunchFailureStops ==
    \A i \in DOMAIN launched :
        ~launched[i].started =>
            /\ i = Len(launched)
            /\ pc = "raised"
            /\ exc = "FileNotFoundError"
            /\ index = launched[i].index
            /\ \A j \in DOMAIN results : results[j].index < launched[i].index
            /\ Executed = 0..launched[i].index
            /\ ~raw_open

\* a command could not be launched while a later step of the list was pending
LaunchFailureWitness ==
    /\ Len(launched) >= 1
    /\ ~launched[Len(launched)].started
    /\ Len(steps) > index + 1

\* C15: no step of the program removes a trigger file: .stow and .no-sudo,
\* once present, are present in the next state.
TriggersKept ==
    [][/\ ".stow" \in fs => ".stow" \in fs'
       /\ ".no-sudo" \in fs => ".no-sudo" \in fs']_vars

\* an invocation with both flags started in a directory that held both
\* trigger files, and they are still there
TriggersKeptWitness ==
    /\ entry = "main"
    /\ {".stow", ".no-sudo"} \subseteq fs0
    /\ {".stow", ".no-sudo"} \subseteq fs
    /\ "--large" \in Range(argv)
    /\ "--no-sudo" \in Range(argv)

\* C16: at most one child launched by the run is not yet waited for, it is
\* the child of the step in progress, and a command is launched only after
\* the command launched before it was started, waited for with status 0,
\* had its txt log written and its step returned 0.
OneAtATime ==
    /\ children \in {0, 1}
    /\ children = 1 =>
           /\ pc \in {"reading", "waiting", "raised"}
           /\ launched # <<>>
           /\ launched[Len(launched)].index = index
    /\ \A i \in DOMAIN launched :
           /\ launched[i].index > 0 =>
                  \E j \in DOMAIN results :
                      /\ results[j].index = launched[i].index - 1
                      /\ results[j].exit_code = 0
           /\ i > 1 =>
                  /\ launched[i - 1].started
                  /\ (launched[i - 1].log_dir \o "/txt") \in DOMAIN files
                  /\ \E w \in DOMAIN reaped :
                         /\ reaped[w].index = launched[i - 1].index
                         /\ reaped[w].returncode = 0

\* the child of the second step runs after the first step's child was waited for
OneAtATimeWitness ==
    /\ Len(launched) = 2
    /\ Len(reaped) = 1
    /\ pc = "reading"
    /\ children = 1

\* C17: process.wait() collects the exit status only when the raw log is
\* closed, the txt log of a step is written in that same step and not
\* before, from a raw log that no longer changes, and nothing is collected
\* while raw is open.
RawClosedFirst ==
    [][/\ Len(reaped') > Len(reaped) =>
              /\ ~raw_open
              /\ ~raw_open'
              /\ (log_dir \o "/txt") \notin DOMAIN files
              /\ (log_dir \o "/txt") \in DOMAIN files'
              /\ files'[log_dir \o "/raw"] = files[log_dir \o "/raw"]
       /\ \A i \in DOMAIN launched' :
              ((launched'[i].log_dir \o "/txt") \in DOMAIN files'
               /\ (launched'[i].log_dir \o "/txt") \notin DOMAIN files)
              => Len(reaped') > Len(reaped)
       /\ raw_open => Len(reaped') <= Len(reaped)
       /\ raw_open' => pc' = "reading"]_vars

\* an exit status was collected and the txt log written, raw being closed
RawClosedFirstWitness ==
    /\ Len(reaped) = 1
    /\ Len(launched) = 1
    /\ ~raw_open
    /\ (launched[1].log_dir \o "/txt") \in DOMAIN files
    /\ pc = "exited"

\* space, tab, carriage return, vertical tab, form feed
BlankChars == {32, 9, 13, 11, 12}

\* C18: the result of filter_output has no two newlines that are adjacent
\* or separated by whitespace only.
NoBlankLines ==
    f_n >= 1 =>
        \A i, j \in DOMAIN f_out[1] :
            (i < j /\ f_out[1][i] = LF /\ f_out[1][j] = LF) =>
                \E k \in (i + 1)..(j - 1) : f_out[1][k] \notin BlankChars \cup {LF}

\* an input with a blank line made of a space or a carriage return, and a
\* result that still has a newline
NoBlankLinesWitness ==
    /\ f_n >= 1
    /\ \E i \in DOMAIN f_in :
           /\ i + 2 <= Len(f_in)
           /\ f_in[i] = LF
           /\ f_in[i + 1] \in {32, 13}
           /\ f_in[i + 2] = LF
    /\ LF \in Range(f_out[1])
    /\ 97 \in Range(f_out[1])

\* where the title sequence ESC ] 0 ; ... BEL that starts at i ends: at the
\* first BEL of the line, 0 if there is none
FirstTitleEnd(s, i) ==
    IF i + 3 <= Len(s) /\ s[i] = ESC /\ s[i + 1] = 93 /\ s[i + 2] = 48 /\ s[i + 3] = 59
    THEN LET e == SkipLine(s, i + 4)
             B == {k \in (i + 4)..(e - 1) : s[k] = BEL}
         IN  IF B # {} THEN 0 - Max({0 - k : k \in B}) ELSE 0
    ELSE 0

\* the printable non-whitespace characters of s that lie outside the ANSI
\* sequences and outside the title sequences of s, in their order
RECURSIVE OutsideText(_, _)
OutsideText(s, i) ==
    IF i > Len(s) THEN <<>>
    ELSE LET a == AnsiEnd(s, i)
             t == FirstTitleEnd(s, i)
         IN  IF a > 0 THEN OutsideText(s, a + 1)
             ELSE IF t > 0 THEN OutsideText(s, t + 1)
             ELSE IF s[i] \in 33..126 THEN <<s[i]>> \o OutsideText(s, i + 1)
             ELSE OutsideText(s, i + 1)

\* x is a subsequence of y from position j of y on
RECURSIVE IsSubsequence(_, _, _)
IsSubsequence(x, y, j) ==
    IF x = <<>> THEN TRUE
    ELSE IF j > Len(y) THEN FALSE
    ELSE IF y[j] = Head(x) THEN IsSubsequence(Tail(x), y, j + 1)
    ELSE IsSubsequence(x, y, j + 1)

\* C19: every printable non-whitespace character of the input outside the
\* ANSI and title sequences is in the result of filter_output, in the
\* original order.
OutsideTextKept ==
    f_n >= 1 => IsSubsequence(OutsideText(f_in, 1), f_out[1], 1)

====
